---- MODULE Spec2Model ----
(***************************************************************************)
(* Model of the quiz-solving agent of tdsProject1 (src/aiTest/curl.py):    *)
(* the session orchestrator solve_quiz_question, the run driver            *)
(* process_run_loop, the file downloader download_and_process_file with    *)
(* its process-wide cache, and the remote assistant run they talk to.      *)
(***************************************************************************)
EXTENDS Integers, Sequences, FiniteSets, TLC

\* ------------------------------------------------------------------ bounds
\* most tool calls the remote run lists in one requires_action record
MaxCalls == 2
\* most tool-call requests the remote run issues over its life
MaxCallIds == 3
\* entries of an archive handed to extract_zip
MaxEntries == 4

\* ------------------------------------------------------- values and inputs
\* Python None / JSON null
None == "None"
\* a dict key that has not been set
Absent == "<absent>"

\* statuses on which process_run_loop stops (curl.py:694, 776)
TerminalStatuses == {"completed", "failed", "cancelled", "expired"}

\* A URL is its text split before the final extension.
PngUrl == [stem |-> "http://h/img", ext |-> ".png"]
CsvUrl == [stem |-> "http://h/data", ext |-> ".csv"]
PdfUrl == [stem |-> "http://h/DOC", ext |-> ".PDF"]
PageUrl == [stem |-> "http://h/quiz", ext |-> ""]
Urls == {PngUrl, CsvUrl, PdfUrl}

\* str.lower() on the extensions that occur
Lower(s) ==
  CASE s = ".PDF" -> ".pdf"
    [] s = ".CSV" -> ".csv"
    [] s = ".Zip" -> ".zip"
    [] s = ".XLSX" -> ".xlsx"
    [] s = ".OPUS" -> ".opus"
    [] s = ".TXT" -> ".txt"
    [] OTHER -> s

\* endswith without the lower()
LowerEndsWith_NoLower(url, suffix) == url.ext = suffix

\* url.lower().endswith(suffix)
LowerEndsWith(url, suffix) == Lower(url.ext) = suffix

CallId(n) == "call_" \o ToString(n)
CallIds == {CallId(n) : n \in 1..MaxCallIds}
FileId(n) == "file-" \o ToString(n)

\* what the remote run may ask for: a tool name, the shape of its JSON
\* arguments ("malformed": not JSON, "missing": JSON without the url key)
\* and the url argument
CallKinds ==
  {[name |-> "web_downloader", args |-> "ok", url |-> u] : u \in Urls}
  \cup {[name |-> "web_scraper", args |-> a, url |-> PageUrl] :
          a \in {"ok", "malformed", "missing"}}
  \cup {[name |-> "unknown_tool", args |-> "ok", url |-> PageUrl]}

RECURSIVE Batches(_, _)
\* the tool-call lists of length n whose ids start at first
Batches(first, n) ==
  IF n = 0 THEN {<<>>}
  ELSE {<<[id |-> CallId(first), name |-> k.name, args |-> k.args, url |-> k.url]>> \o rest :
          k \in CallKinds, rest \in Batches(first + 1, n - 1)}

Min(a, b) == IF a < b THEN a ELSE b
\* a counter that stops at 2 ("more than once")
Bump(c) == Min(c + 1, 2)

VARIABLES
  pc,            \* position of solve_quiz_question
  result,        \* its result dict
  lp,            \* position of process_run_loop
  run,           \* process_run_loop's local `run`
  idx,           \* position of the for loop over required_actions
  tool_outputs,  \* process_run_loop's local list
  returned,      \* the value process_run_loop returned
  cache,         \* UPLOADED_FILES_CACHE
  remote,        \* the run as the assistant service holds it
  nextCallId,    \* ids the service has issued
  nextFileId,    \* files the service's storage holds
  polled,        \* history: the service's answer to the latest poll
  ev,            \* history: latest driver event <<kind, parity>>
  cycleSubmits,  \* history: submit calls since the latest poll
  lastBatch,     \* history: call ids of the latest submitted batch
  execCount,     \* history: handler runs per call id
  submitCount,   \* history: outputs submitted per call id
  httpFailed,    \* history: make_openai_request raised
  localFailed,   \* history: an exception that is not a remote failure escaped
  extractCalls,  \* history: calls of _extract_assistant_response
  fetches,       \* history: GETs of download_and_process_file per url
  uploads,       \* history: uploads of download_and_process_file per url
  dlReturns,     \* history: return values of download_and_process_file per url
  fnCall,        \* a function called on its own: its name and inputs
  fnOut          \* what that call did and returned

orch == <<pc, result>>
driver == <<lp, run, idx, tool_outputs, returned>>
service == <<remote, nextCallId, nextFileId>>
dlhist == <<fetches, uploads, dlReturns>>
hist == <<polled, ev, cycleSubmits, lastBatch, execCount, submitCount,
          httpFailed, localFailed, extractCalls>>
vars == <<pc, result, lp, run, idx, tool_outputs, returned, cache, remote,
          nextCallId, nextFileId, polled, ev, cycleSubmits, lastBatch,
          execCount, submitCount, httpFailed, localFailed, extractCalls,
          fetches, uploads, dlReturns, fnCall, fnOut>>
fnv == <<fnCall, fnOut>>

NoRun == [status |-> None, calls |-> <<>>, last_error |-> None]

Init ==
  /\ pc = "create_assistant"
  /\ result = [status |-> "error", answer |-> None, thread_id |-> None,
               run_id |-> None, attachments |-> <<>>, error |-> Absent,
               messages |-> Absent]
  /\ lp = "idle"
  /\ run = NoRun
  /\ idx = 1
  /\ tool_outputs = <<>>
  /\ returned = NoRun
  /\ cache = [u \in Urls |-> Absent]
  /\ remote = NoRun
  /\ nextCallId = 1
  /\ nextFileId = 1
  /\ polled = NoRun
  /\ ev = <<"none", 0>>
  /\ cycleSubmits = 0
  /\ lastBatch = <<>>
  /\ execCount = [c \in CallIds |-> 0]
  /\ submitCount = [c \in CallIds |-> 0]
  /\ httpFailed = FALSE
  /\ localFailed = FALSE
  /\ extractCalls = 0
  /\ fetches = [u \in Urls |-> 0]
  /\ uploads = [u \in Urls |-> 0]
  /\ dlReturns = [u \in Urls |-> <<>>]
  /\ fnCall = [fn |-> "none"]
  /\ fnOut = [kind |-> "none"]

\* --------------------------------------------------------- pure functions
\* Content-Type headers a download may carry
ContentTypes == {"text/csv", "image/png"}

\* 'text' in content_type or 'csv' in content_type or 'json' in content_type
MentionsText(ct) == ct \in {"text/csv", "text/plain", "application/json"}

\* how the headless browser fares: it renders the page, it fails before a
\* session exists (driver install or start), or the session fails to load
BrowserOutcomes == {"renders", "no_session", "load_fails"}

\* get_page_source_local (curl.py:57-76).  kind/ret: the value returned or the
\* exception raised; session: the browser session when the function is left
get_page_source_local(url, browser, fallbackOk) ==
  IF browser = "renders"
  THEN [kind |-> "return", ret |-> "<html>rendered</html>", session |-> "quit"]
  ELSE LET session == IF browser = "no_session" THEN "none" ELSE "live" IN
       IF fallbackOk
       THEN [kind |-> "return", ret |-> "<html>plain</html>", session |-> session]
       ELSE [kind |-> "raise", ret |-> "ConnectionError", session |-> session]

scrape_html(url, browser, fallbackOk) == get_page_source_local(url, browser, fallbackOk)

\* markdownify on the pages that occur
Markdown(html) ==
  CASE html = "<html>rendered</html>" -> "rendered"
    [] html = "<html>plain</html>" -> "plain"
    [] OTHER -> html

scrape_md(url, browser, fallbackOk) ==
  LET g == get_page_source_local(url, browser, fallbackOk) IN
  IF g.kind = "raise" THEN g ELSE [g EXCEPT !.ret = Markdown(g.ret)]

\* the text extract_tables_from_html puts before the page
TablePrefix == "HTML content fetched. Use Code Interpreter with: import pandas as pd; tables = pd.read_html(...) to extract tables. HTML Content: "

\* extract_tables_from_html (curl.py:303-318)
extract_tables_from_html(url, browser, fallbackOk) ==
  LET g == get_page_source_local(url, browser, fallbackOk) IN
  IF g.kind = "raise"
  THEN [g EXCEPT !.kind = "return", !.ret = "Error fetching HTML: " \o g.ret]
  ELSE [g EXCEPT !.ret = TablePrefix \o g.ret]

\* query_json_path (curl.py:350-371)
query_json_path(url, fetchOk, hasJsonpath) ==
  IF ~fetchOk THEN "Error in JSONPath query: HTTPError"
  ELSE IF hasJsonpath THEN "[matches]"
  ELSE "JSONPath not available locally. Full JSON data: {json}"

\* analyze_image_with_vision (curl.py:387-439)
analyze_image_with_vision(url, fetchOk, answerOk) ==
  IF fetchOk /\ answerOk THEN "vision answer"
  ELSE "Error in vision analysis: HTTPError"

\* s[:limit] on a string of n characters leaves this many
Truncate(n, limit) == Min(n, limit)

\* the slices the handlers take of their results
PdfTextLimit == 20000
HtmlLimit == 30000
ZipLimit == 25000
JsonLimit == 20000

\* str(e) of the HTTPError raise_for_status raises: status, reason and the url
HttpErrorLen(urlLen) == Len("414 Client Error: Request-URI Too Large for url: ") + urlLen

\* length of what scrape_pdf returns: textLen characters extracted from the
\* pages, or a fetch that fails for a url of urlLen characters
scrape_pdf_len(textLen, fetchOk, urlLen) ==
  IF fetchOk THEN Truncate(textLen, PdfTextLimit)
  ELSE Len("Error extracting PDF text: ") + HttpErrorLen(urlLen)

\* scrape_pdf: the extracted text, or the error string of the except clause
scrape_pdf(url, fetchOk) ==
  IF fetchOk THEN "pdf text" ELSE "Error extracting PDF text: HTTPError"

\* os.path.basename(url.split("?")[0]) on the urls that occur
Basename(url) ==
  CASE url.stem = "http://h/img" -> "img" \o url.ext
    [] url.stem = "http://h/data" -> "data" \o url.ext
    [] url.stem = "http://h/DOC" -> "DOC" \o url.ext
    [] url.stem = "http://h/doc" -> "doc" \o url.ext
    [] url.stem = "http://h/doc.pdf?dl" -> "doc.pdf"
    [] url.stem = "http://h/book" -> "book" \o url.ext
    [] url.stem = "http://h/pack" -> "pack" \o url.ext
    [] url.stem = "http://h/rows" -> "rows" \o url.ext
    [] url.stem = "http://h/notes" -> "notes" \o url.ext
    [] url.stem = "http://h/blob" -> "blob"
    [] url.stem = "http://h/clip" -> "clip" \o url.ext
    [] OTHER -> ""

\* the transient file of download_and_process_file (curl.py:167)
TransientName(url) ==
  IF Basename(url) = "" THEN "downloaded_file.dat" ELSE Basename(url)

\* the transient file of download_excel_raw (curl.py:277-279); the test of
\* line 278 does not lower the name
ExcelTransientName(url) ==
  IF Basename(url) = "" \/ url.ext \notin {".xlsx", ".xls"}
  THEN "data.xlsx" ELSE Basename(url)

\* download_excel_raw: upload without any cache.  left: the transient files
\* still on disk when it returns
download_excel_raw(url, fid, fetchOk, uploadOk) ==
  IF fetchOk /\ uploadOk
  THEN [ret |-> "Excel file uploaded. File ID: " \o FileId(fid)
                  \o ". Use Code Interpreter with pandas to read and process this file: pd.read_excel(file_path)",
        fid |-> fid + 1, left |-> {}]
  ELSE [ret |-> "Error downloading Excel: HTTPError", fid |-> fid,
        left |-> IF fetchOk THEN {ExcelTransientName(url)} ELSE {}]

\* answers of the transcription endpoint: a transcript, an error status, or
\* no answer at all (requests.post raises)
TranscribeAnswers == {"200", "500", "raise"}

\* transcribe_audio_file (curl.py:189-220); the test of line 196 does not
\* lower the url
transcribe_audio_file(url, fetchOk, answer) ==
  LET filename == IF url.ext = ".opus" THEN "temp_audio_clip.ogg"
                  ELSE "temp_audio_clip.mp3"
  IN
  IF ~fetchOk
  THEN [ret |-> "Error during transcription: HTTPError", left |-> {}]
  ELSE IF answer = "raise"
  THEN [ret |-> "Error during transcription: ConnectionError", left |-> {filename}]
  ELSE IF answer # "200"
  THEN [ret |-> "Error transcribing: server error", left |-> {filename}]
  ELSE [ret |-> "transcript", left |-> {}]

parse_excel(url, fid, fetchOk, uploadOk) == download_excel_raw(url, fid, fetchOk, uploadOk)

\* extract_zip: the listing, or the error string of the except clause
extract_zip(url, fetchOk) ==
  IF fetchOk THEN "Files in archive: []\n\n" ELSE "Error extracting ZIP: HTTPError"

\* the fixed text generate_chart_base64 wraps around data_csv (default
\* chart type, title and columns; line breaks left out)
ChartFrame == "CHART_REQUEST: Please use Code Interpreter to generate a bar chart. Title: Chart X Column: auto-detect first column Y Column: auto-detect first numeric column DATA (CSV format): Generate the chart using matplotlib in Code Interpreter and return the base64 PNG."

\* the tools process_run_loop dispatches on
Tools ==
  {"web_scraper", "web_downloader", "pdf_scraper", "audio_transcriber",
   "api_request", "excel_parser", "image_ocr", "table_extractor",
   "zip_extractor", "json_query", "image_analyzer", "chart_generator"}

\* length of the output string of a tool call whose handler succeeds on
\* content of n characters: the page, the response body, the extracted
\* text, the transcript, the JSON reply, the archive listing, data_csv
ToolOutputLen(tool, n) ==
  CASE tool = "web_scraper" -> n
    [] tool = "web_downloader" -> n
    [] tool = "pdf_scraper" -> scrape_pdf_len(n, TRUE, 0)
    [] tool = "audio_transcriber" -> n
    [] tool = "api_request" -> n
    [] tool = "excel_parser" ->
         Len(parse_excel([stem |-> "http://h/book", ext |-> ".xls"], 2, TRUE, TRUE).ret)
    [] tool \in {"image_ocr", "image_analyzer"} -> n
    [] tool = "table_extractor" -> Len(TablePrefix) + Truncate(n, HtmlLimit)
    [] tool = "zip_extractor" -> Truncate(n, ZipLimit)
    [] tool = "json_query" -> Truncate(n, JsonLimit)
    [] tool = "chart_generator" -> Len(ChartFrame) + n

\* the value download_and_process_file stores after an upload
CachedHandle(fid) == "File ID: " \o FileId(fid)

\* the value download_and_process_file stores after returning a text body
TextMarker == "Data already downloaded."

UploadMessage(fid) ==
  "File uploaded successfully. ID: " \o FileId(fid)
    \o ". Use this ID with Code Interpreter tools."

\* r.text of a text download
Body(url) == "body of " \o url.stem \o url.ext

\* CacheAfterText without the write
CacheAfterText_Forgets(c, url) == c

\* UPLOADED_FILES_CACHE[url] = "Data already downloaded."
CacheAfterText(c, url) == [c EXCEPT ![url] = TextMarker]

\* CacheAfterUpload that builds a new table holding only the new entry
CacheAfterUpload_Resets(c, url, fid) ==
  [u \in DOMAIN c |-> IF u = url THEN CachedHandle(fid) ELSE Absent]

\* CacheAfterUpload without the write
CacheAfterUpload_Forgets(c, url, fid) == c

\* UPLOADED_FILES_CACHE[url] = f"File ID: {file_id}"
CacheAfterUpload(c, url, fid) == [c EXCEPT ![url] = CachedHandle(fid)]

\* download_and_process_file with the cache consulted before the extension
\* tests and the spreadsheet handle stored like any other upload
download_and_process_file_CachesAll(url, c, fid, fetchOk, bodyOk, ct, uploadOk) ==
  LET keep(r) == [ret |-> r, cache |-> c, fetched |-> FALSE, uploaded |-> FALSE,
                  fid |-> fid, left |-> {}]
  IN
  IF c[url] # Absent THEN keep(c[url])
  ELSE IF LowerEndsWith(url, ".pdf") THEN keep(scrape_pdf(url, fetchOk))
  ELSE IF LowerEndsWith(url, ".xlsx") \/ LowerEndsWith(url, ".xls")
  THEN LET x == parse_excel(url, fid, fetchOk, uploadOk)
       IN [keep(x.ret) EXCEPT !.fid = x.fid, !.left = x.left,
                              !.cache = IF x.fid = fid THEN c
                                        ELSE CacheAfterUpload(c, url, fid)]
  ELSE IF LowerEndsWith(url, ".zip") THEN keep(extract_zip(url, fetchOk))
  ELSE IF ~fetchOk
  THEN [keep("Error processing file: HTTPError") EXCEPT !.fetched = TRUE]
  ELSE IF \/ MentionsText(ct)
          \/ LowerEndsWith(url, ".csv")
          \/ LowerEndsWith(url, ".json")
          \/ LowerEndsWith(url, ".txt")
  THEN [ret |-> IF bodyOk THEN Body(url)
                ELSE "Error processing file: ChunkedEncodingError",
        cache |-> CacheAfterText(c, url),
        fetched |-> TRUE, uploaded |-> FALSE, fid |-> fid, left |-> {}]
  ELSE IF ~bodyOk
  THEN [keep("Error processing file: ChunkedEncodingError") EXCEPT
          !.fetched = TRUE, !.left = {TransientName(url)}]
  ELSE IF ~uploadOk
  THEN [keep("Error processing file: HTTPError") EXCEPT
          !.fetched = TRUE, !.left = {TransientName(url)}]
  ELSE [ret |-> UploadMessage(fid), cache |-> CacheAfterUpload(c, url, fid),
        fetched |-> TRUE, uploaded |-> TRUE, fid |-> fid + 1, left |-> {}]

\* download_and_process_file(url) run against cache c and a storage holding
\* fid - 1 files, when the GET succeeds or not, carries Content-Type ct, the
\* body of the streamed response (stream=True, read by r.text or r.content)
\* arrives or not, and the upload succeeds or not.  ret: the return value; cache: the cache
\* afterwards; fetched: whether the GET of line 146 was sent; uploaded:
\* whether a file was stored remotely; fid: the storage afterwards; left:
\* the transient files still on disk when it returns.
download_and_process_file(url, c, fid, fetchOk, bodyOk, ct, uploadOk) ==
  LET keep(r) == [ret |-> r, cache |-> c, fetched |-> FALSE, uploaded |-> FALSE,
                  fid |-> fid, left |-> {}]
  IN
  IF LowerEndsWith(url, ".pdf") THEN keep(scrape_pdf(url, fetchOk))
  ELSE IF LowerEndsWith(url, ".xlsx") \/ LowerEndsWith(url, ".xls")
  THEN LET x == parse_excel(url, fid, fetchOk, uploadOk)
       IN [keep(x.ret) EXCEPT !.fid = x.fid, !.left = x.left]
  ELSE IF LowerEndsWith(url, ".zip") THEN keep(extract_zip(url, fetchOk))
  ELSE IF c[url] # Absent THEN keep(c[url])
  ELSE IF ~fetchOk
  THEN [keep("Error processing file: HTTPError") EXCEPT !.fetched = TRUE]
  ELSE IF \/ MentionsText(ct)
          \/ LowerEndsWith(url, ".csv")
          \/ LowerEndsWith(url, ".json")
          \/ LowerEndsWith(url, ".txt")
  THEN [ret |-> IF bodyOk THEN Body(url)
                ELSE "Error processing file: ChunkedEncodingError",
        cache |-> CacheAfterText(c, url),
        fetched |-> TRUE, uploaded |-> FALSE, fid |-> fid, left |-> {}]
  ELSE IF ~bodyOk
  THEN [keep("Error processing file: ChunkedEncodingError") EXCEPT
          !.fetched = TRUE, !.left = {TransientName(url)}]
  ELSE IF ~uploadOk
  THEN [keep("Error processing file: HTTPError") EXCEPT
          !.fetched = TRUE, !.left = {TransientName(url)}]
  ELSE [ret |-> UploadMessage(fid), cache |-> CacheAfterUpload(c, url, fid),
        fetched |-> TRUE, uploaded |-> TRUE, fid |-> fid + 1, left |-> {}]

\* str.strip() on the message texts that occur
Strip(s) ==
  CASE s = " 42 " -> "42"
    [] s = "  " -> ""
    [] s = " yoursecret " -> "yoursecret"
    [] s = " pad " -> "pad"
    [] OTHER -> s

Text(v) == [type |-> "text", value |-> v]
Image(f) == [type |-> "image_file", value |-> f]

\* message listings of a thread, newest first
SampleThreads ==
  { << [role |-> "assistant", content |-> <<Text(" 42 ")>>],
       [role |-> "user", content |-> <<Text("solve")>>] >>,
    << [role |-> "assistant", content |-> <<Image("file-9")>>],
       [role |-> "assistant", content |-> <<Text("old"), Image("file-8")>>],
       [role |-> "user", content |-> <<Text("solve")>>] >>,
    << [role |-> "assistant", content |-> <<Text("  "), Text("b"), Image("file-7")>>] >>,
    << [role |-> "user", content |-> <<Text("solve")>>] >> }

RECURSIVE ExtractParts(_, _, _)
\* the inner loop of _extract_assistant_response over one message's parts
ExtractParts(parts, i, acc) ==
  IF i > Len(parts) THEN acc
  ELSE LET part == parts[i] IN
       IF part.type = "text" /\ acc.answer = ""
       THEN ExtractParts(parts, i + 1, [acc EXCEPT !.answer = Strip(part.value)])
       ELSE IF part.type = "image_file"
       THEN ExtractParts(parts, i + 1,
                         [acc EXCEPT !.attachments = Append(@, part.value)])
       ELSE ExtractParts(parts, i + 1, acc)

RECURSIVE ExtractMessages(_, _, _)
\* the outer loop of _extract_assistant_response
ExtractMessages(msgs, i, acc) ==
  IF i > Len(msgs) THEN acc
  ELSE IF msgs[i].role # "assistant" THEN ExtractMessages(msgs, i + 1, acc)
  ELSE LET after == ExtractParts(msgs[i].content, 1, acc) IN
       IF after.answer # "" THEN after
       ELSE ExtractMessages(msgs, i + 1, after)

_extract_assistant_response(msgs) ==
  ExtractMessages(msgs, 1, [answer |-> "", attachments |-> <<>>])

RECURSIVE FirstImage(_, _)
\* the inner loop of get_latest_file_id_from_thread over one message's parts
FirstImage(parts, i) ==
  IF i > Len(parts) THEN None
  ELSE IF parts[i].type = "image_file" THEN parts[i].value
  ELSE FirstImage(parts, i + 1)

RECURSIVE LatestFile(_, _)
\* the outer loop of get_latest_file_id_from_thread
LatestFile(msgs, i) ==
  IF i > Len(msgs) THEN None
  ELSE IF msgs[i].role = "assistant" /\ FirstImage(msgs[i].content, 1) # None
  THEN FirstImage(msgs[i].content, 1)
  ELSE LatestFile(msgs, i + 1)

\* get_latest_file_id_from_thread (curl.py:222-238): None when the listing
\* cannot be fetched
get_latest_file_id_from_thread(msgs, lookupOk) ==
  IF lookupOk THEN LatestFile(msgs, 1) ELSE None

\* the stored files and base64 of their bytes
FileIds == {"file-9", "file-8", "file-7"}
Base64Content(file_id) ==
  CASE file_id = "file-9" -> "UE5HOQ=="
    [] file_id = "file-8" -> "UE5HOA=="
    [] file_id = "file-7" -> "UE5HNw=="

\* download_file_and_base64_encode (curl.py:80-94)
download_file_and_base64_encode(file_id, downloadOk) ==
  IF downloadOk THEN "data:image/png;base64," \o Base64Content(file_id) ELSE None

Sentinel == "__LATEST_FILE__"

\* SubstitutedPayload that drops the value when no file is found
SubstitutedPayload_NullsMissing(payload, msgs, lookupOk, downloadOk) ==
  [key \in DOMAIN payload |->
     IF payload[key] = Sentinel
     THEN LET file_id == get_latest_file_id_from_thread(msgs, lookupOk) IN
          IF file_id # None
          THEN download_file_and_base64_encode(file_id, downloadOk)
          ELSE None
     ELSE payload[key]]

\* the payload post_json is called with by the api_request handler
\* (curl.py:726-732): per key holding the sentinel, look the file up and,
\* if one is found, store what the download returns
SubstitutedPayload(payload, msgs, lookupOk, downloadOk) ==
  [key \in DOMAIN payload |->
     IF payload[key] = Sentinel
     THEN LET file_id == get_latest_file_id_from_thread(msgs, lookupOk) IN
          IF file_id # None
          THEN download_file_and_base64_encode(file_id, downloadOk)
          ELSE payload[key]
     ELSE payload[key]]

\* the POST branch of the api_request handler (curl.py:725-732) and the
\* except clause around it: sent: the payload post_json posts; out: the tool
\* output, json.dumps of the decoded reply, or the error string when the
\* request or the decoding of the reply fails
api_request_post(payload, msgs, lookupOk, downloadOk, postOk) ==
  [sent |-> SubstitutedPayload(payload, msgs, lookupOk, downloadOk),
   posted |-> TRUE,
   out |-> IF postOk THEN "{\"received\": true}" ELSE "Error: ConnectionError"]

\* the configured secret (app.py:21, the default of the environment lookup)
USER_SECRET == "yoursecret"

\* dict.get on a decoded body: None for a key that is not there
Get(payload, field) == IF payload[field] = Absent THEN None ELSE payload[field]

\* Python truth of the values that occur
Falsy(v) == v \in {None, ""}

\* ', '.join over field names
RECURSIVE JoinFields(_)
JoinFields(fields) ==
  IF fields = <<>> THEN ""
  ELSE IF Len(fields) = 1 THEN fields[1]
  ELSE fields[1] \o ", " \o JoinFields(Tail(fields))

\* quiz_solver that runs the solver before it compares the secret
quiz_solver_SolvesFirst(req, solver_response) ==
  IF req.kind # "dict"
  THEN [code |-> 400, called |-> FALSE, body |-> [error |-> "Invalid JSON payload."]]
  ELSE IF \E field \in {"email", "secret", "url"} : Falsy(Get(req, field))
  THEN [code |-> 400, called |-> FALSE, body |-> [error |-> "Missing required field(s)."]]
  ELSE IF req.secret # USER_SECRET
  THEN [code |-> 403, called |-> TRUE,
        body |-> [error |-> "Forbidden: secret mismatch."]]
  ELSE [code |-> 200, called |-> TRUE, body |-> [status |-> "ok"]]

\* the secret test placed before the test for missing fields
quiz_solver_SecretFirst(req, solver_response) ==
  IF req.kind # "dict"
  THEN [code |-> 400, called |-> FALSE, body |-> [error |-> "Invalid JSON payload."]]
  ELSE IF Get(req, "secret") # USER_SECRET
  THEN [code |-> 403, called |-> FALSE,
        body |-> [error |-> "Forbidden: secret mismatch."]]
  ELSE [code |-> 400, called |-> FALSE, body |-> [error |-> "Missing required field(s)."]]

\* quiz_solver (app.py:56-108).  req: the request body, undecodable, decoded
\* to something that is no dict, or a dict; solver_response: what
\* solve_quiz_question returns if it is called; called: whether it is
quiz_solver(req, solver_response) ==
  IF req.kind # "dict"
  THEN [code |-> 400, called |-> FALSE, body |-> [error |-> "Invalid JSON payload."]]
  ELSE
  LET missing == SelectSeq(<<"email", "secret", "url">>,
                           LAMBDA field : Falsy(Get(req, field))) IN
  IF missing # <<>>
  THEN [code |-> 400, called |-> FALSE,
        body |-> [error |-> "Missing required field(s): " \o JoinFields(missing) \o "."]]
  ELSE IF req.secret # USER_SECRET
  THEN [code |-> 403, called |-> FALSE,
        body |-> [error |-> "Forbidden: secret mismatch."]]
  ELSE IF solver_response.status # "completed"
  THEN [code |-> 500, called |-> TRUE,
        body |-> [status |-> solver_response.status,
                  message |-> IF solver_response.error = Absent
                              THEN "Quiz solver failed."
                              ELSE solver_response.error,
                  thread_id |-> solver_response.thread_id,
                  run_id |-> solver_response.run_id]]
  ELSE [code |-> 200, called |-> TRUE,
        body |-> [status |-> "ok",
                  thread_id |-> solver_response.thread_id,
                  run_id |-> solver_response.run_id,
                  answer |-> solver_response.answer,
                  attachments |-> solver_response.attachments,
                  email |-> req.email]]

\* extract_zip on the entries of an archive.  An entry: its name, the
\* extension the name ends in, the length of its decoded content, and
\* whether z.read can read it (an encrypted or damaged entry cannot be)
ArchiveEntries ==
  {[name |-> "a.txt", ext |-> ".txt", len |-> 9000, readable |-> TRUE],
   [name |-> "B.TXT", ext |-> ".TXT", len |-> 8000, readable |-> TRUE],
   [name |-> "b.csv", ext |-> ".csv", len |-> 120, readable |-> TRUE],
   [name |-> "photo.png", ext |-> ".png", len |-> 50000, readable |-> TRUE],
   [name |-> "__MACOSX/c.txt", ext |-> ".txt", len |-> 100, readable |-> TRUE],
   [name |-> "locked.md", ext |-> ".md", len |-> 300, readable |-> FALSE]}

\* the slice of one entry's content (curl.py:338)
ZipEntryLimit == 8000

text_extensions == {".txt", ".csv", ".json", ".xml", ".html", ".md", ".py", ".js"}

\* name.startswith('__') on the names that occur
StartsWithDunder(name) == name = "__MACOSX/c.txt"

\* the test of line 335 without its second half
IsTextEntry_AnyName(entry) == Lower(entry.ext) \in text_extensions

\* the test of line 335: a text-like extension and no leading '__'
IsTextEntry(entry) ==
  Lower(entry.ext) \in text_extensions /\ ~StartsWithDunder(entry.name)

\* length of str(file_list): brackets, quoted names, ', ' between them
RECURSIVE ReprLen(_)
ReprLen(names) ==
  IF names = <<>> THEN 2
  ELSE IF Len(names) = 1 THEN Len(names[1]) + 4
  ELSE Len(names[1]) + 4 + ReprLen(Tail(names))

\* what one entry adds to contents: nothing, its heading and the slice of
\* its text, or the note of the inner except clause.  head/text: lengths
ZipSection(entry) ==
  IF ~IsTextEntry(entry) THEN [kind |-> "none", head |-> 0, text |-> 0]
  ELSE IF entry.readable
  THEN [kind |-> "text", head |-> Len("--- ") + Len(entry.name) + Len(" ---") + 1,
        text |-> Truncate(entry.len, ZipEntryLimit)]
  ELSE [kind |-> "note",
        head |-> Len("--- ") + Len(entry.name) + Len(" --- (binary or unreadable)"),
        text |-> 0]

\* characters of a piece that starts at offset start and is n long which
\* lie inside the first limit characters
Within(start, n, limit) ==
  IF start >= limit THEN 0 ELSE Min(n, limit - start)

\* extract_zip once the archive is open (curl.py:328-344): names: file_list;
\* parts: per entry its section, with `shown`, the characters of its text
\* that output[:25000] keeps; full: len(output) before the slice; len: after
extract_zip_output(entries) ==
  LET names == [i \in 1..Len(entries) |-> entries[i].name]
      header == Len("Files in archive: ") + ReprLen(names) + 2
      sec(i) == ZipSection(entries[i])
      \* where the section of entry i starts in output, were it to have one
      start[i \in 1..Len(entries) + 1] ==
        IF i = 1 THEN header
        ELSE IF sec(i - 1).kind = "none" THEN start[i - 1]
        ELSE start[i - 1] + sec(i - 1).head + sec(i - 1).text + 2
      \* "\n\n".join puts no separator after the last section
      sections == {i \in 1..Len(entries) : sec(i).kind # "none"}
      full == IF sections = {} THEN header ELSE start[Len(entries) + 1] - 2
  IN [names |-> names,
      parts |-> [i \in 1..Len(entries) |->
                   [kind |-> sec(i).kind, text |-> sec(i).text,
                    shown |-> Within(start[i] + sec(i).head, sec(i).text, ZipLimit)]],
      full |-> full,
      len |-> Truncate(full, ZipLimit)]

\* the if/elif chain of process_run_loop (curl.py:710-762): the function a
\* tool name and its decoded arguments select; "none" when no branch matches
HandlerOf(func_name, args) ==
  CASE func_name = "web_scraper" ->
         IF (IF args.format = Absent THEN "html" ELSE args.format) = "html"
         THEN "scrape_html" ELSE "scrape_md"
    [] func_name = "web_downloader" -> "download_and_process_file"
    [] func_name = "pdf_scraper" -> "scrape_pdf"
    [] func_name = "audio_transcriber" -> "transcribe_audio_file"
    [] func_name = "api_request" ->
         IF args.method = "GET" THEN "get_json" ELSE "post_json"
    [] func_name = "excel_parser" -> "parse_excel"
    [] func_name = "image_ocr" -> "extract_text_from_image"
    [] func_name = "table_extractor" -> "extract_tables_from_html"
    [] func_name = "zip_extractor" -> "extract_zip"
    [] func_name = "json_query" -> "query_json_path"
    [] func_name = "image_analyzer" -> "analyze_image_with_vision"
    [] func_name = "chart_generator" -> "generate_chart_base64"
    [] OTHER -> "none"

\* the first key a branch reads with args[...]
FirstKey(func_name) ==
  CASE func_name = "api_request" -> "method"
    [] func_name = "chart_generator" -> "data_csv"
    [] OTHER -> "url"

\* what a handler returns when nothing fails
ResultOf(handler) ==
  CASE handler = "scrape_html" -> scrape_html(PageUrl, "renders", TRUE).ret
    [] handler = "scrape_md" -> scrape_md(PageUrl, "renders", TRUE).ret
    [] OTHER -> "result of " \o handler

\* one turn of the for loop (curl.py:703-768) for a call named func_name.
\* args: whether the arguments decode and carry the keys the branch reads,
\* with the format and method given.  handlers: the functions invoked, in
\* order; http: the requests sent to args['url'] by api_request; out: the
\* output appended, or the exception that leaves the loop
HandleCall(func_name, args, handlerOk) ==
  LET turn(hs, reqs, o) ==
        [kind |-> "return", handlers |-> hs, http |-> reqs, out |-> o]
      handler == HandlerOf(func_name, args)
  IN
  IF args.shape = "malformed"
  THEN [kind |-> "raise", handlers |-> <<>>, http |-> <<>>, out |-> "JSONDecodeError"]
  ELSE IF handler = "none" THEN turn(<<>>, <<>>, "Error")
  ELSE IF args.shape = "missing"
  THEN turn(<<>>, <<>>, "Error: '" \o FirstKey(func_name) \o "'")
  ELSE turn(<<handler>>,
            IF handler = "get_json" THEN <<"GET">>
            ELSE IF handler = "post_json" THEN <<"POST">> ELSE <<>>,
            IF handlerOk THEN ResultOf(handler) ELSE "Error: ConnectionError")

\* ------------------------------------------------------------------ actions
Ev(kind) == <<kind, 1 - ev[2]>>

\* the answers of the assistant API to one request
Responses == {"2xx", "5xx"}

\* make_openai_request with the HTTPError logged and swallowed
make_openai_request_Swallows(resp) == "json"

\* make_openai_request: the decoded body, or the HTTPError raised again
make_openai_request(resp) == IF resp = "2xx" THEN "json" ELSE "raise"

\* Caught that starts from a fresh record
Caught_DropsIds(res, msg) ==
  [res EXCEPT !.status = "error", !.error = msg, !.thread_id = None,
              !.run_id = None]

\* Caught without the reset of the status
Caught_KeepsStatus(res, msg) == [res EXCEPT !.error = msg]

\* the except clause of solve_quiz_question (curl.py:852-856)
Caught(res, msg) == [res EXCEPT !.status = "error", !.error = msg]

\* an exception leaves process_run_loop and reaches solve_quiz_question
Escape(msg) ==
  /\ lp' = "raised"
  /\ pc' = "done"
  /\ result' = Caught(result, msg)

\* create_assistant: POST assistants
CreateAssistant ==
  /\ UNCHANGED fnv
  /\ pc = "create_assistant"
  /\ \E resp \in Responses :
       /\ httpFailed' = (httpFailed \/ resp # "2xx")
       /\ IF make_openai_request(resp) = "raise"
          THEN /\ pc' = "done"
               /\ result' = Caught(result, "HTTPError")
          ELSE /\ pc' = "create_run"
               /\ UNCHANGED result
  /\ UNCHANGED <<driver, cache, service, dlhist, polled, ev, cycleSubmits,
                 lastBatch, execCount, submitCount, localFailed, extractCalls>>

\* POST threads/runs, then the call of process_run_loop
CreateRun ==
  /\ UNCHANGED fnv
  /\ pc = "create_run"
  /\ \E resp \in Responses :
       /\ httpFailed' = (httpFailed \/ resp # "2xx")
       /\ IF make_openai_request(resp) = "raise"
          THEN /\ pc' = "done"
               /\ result' = Caught(result, "HTTPError")
               /\ UNCHANGED <<remote, lp>>
          ELSE /\ remote' = IF resp = "2xx"
                            THEN [status |-> "queued", calls |-> <<>>,
                                  last_error |-> None]
                            ELSE remote
               /\ result' = [result EXCEPT !.thread_id = "thread_1",
                                           !.run_id = "run_1"]
               /\ pc' = "run_loop"
               /\ lp' = "poll"
  /\ UNCHANGED <<run, idx, tool_outputs, returned, cache, nextCallId, nextFileId,
                 dlhist, polled, ev, cycleSubmits, lastBatch, execCount,
                 submitCount, localFailed, extractCalls>>

\* Branch with the success test widened to every status that starts like it
Branch_ReturnsEarly(status) ==
  IF status \in {"completed", "cancelling"} THEN "return"
  ELSE IF status = "requires_action" THEN "dispatch"
  ELSE IF status \in {"failed", "cancelled", "expired"} THEN "break"
  ELSE "again"

\* the if/elif chain on the polled status (curl.py:694, 698, 776)
Branch(status) ==
  IF status = "completed" THEN "return"
  ELSE IF status = "requires_action" THEN "dispatch"
  ELSE IF status \in {"failed", "cancelled", "expired"} THEN "break"
  ELSE "again"

\* one turn of the while loop up to the for loop: sleep, GET the run, branch
Poll ==
  /\ UNCHANGED fnv
  /\ pc = "run_loop"
  /\ lp = "poll"
  /\ ev' = Ev("poll")
  /\ \E resp \in Responses :
       /\ httpFailed' = (httpFailed \/ resp # "2xx")
       /\ IF make_openai_request(resp) = "raise"
          THEN /\ Escape("HTTPError")
               /\ UNCHANGED <<run, idx, tool_outputs, returned, polled,
                              cycleSubmits>>
          ELSE /\ run' = remote
               /\ polled' = remote
               /\ cycleSubmits' = 0
               /\ LET b == Branch(remote.status) IN
                  /\ lp' = CASE b \in {"return", "break"} -> "returned"
                             [] b = "dispatch" ->
                                  IF Len(remote.calls) = 0 THEN "submit" ELSE "exec"
                             [] OTHER -> "poll"
                  /\ returned' = IF b \in {"return", "break"} THEN remote
                                 ELSE returned
                  /\ tool_outputs' = IF b = "dispatch" THEN <<>> ELSE tool_outputs
                  /\ idx' = IF b = "dispatch" THEN 1 ELSE idx
               /\ UNCHANGED orch
  /\ UNCHANGED <<cache, service, dlhist, lastBatch, execCount, submitCount,
                 localFailed, extractCalls>>

\* get_page_source_local behind scrape_html: the rendered page, the plain
\* fetch of the fallback, or the exception of a fallback that fails too
ScrapeOutcomes ==
  {LET g == scrape_html(PageUrl, b, f)
   IN IF g.kind = "raise" THEN "raise" ELSE g.ret :
     b \in BrowserOutcomes, f \in BOOLEAN}

\* the results the try block of the for loop can leave in `result` for a
\* decodable call: out is the tool output, the rest is what the handler did
HandlerResults(call) ==
  LET quiet(o) == [out |-> o, cache |-> cache, fetched |-> FALSE,
                   uploaded |-> FALSE, fid |-> nextFileId, dl |-> FALSE]
  IN
  IF call.name \in {"web_scraper", "web_downloader"} /\ call.args = "missing"
  THEN {quiet("Error: 'url'")}
  ELSE IF call.name = "web_scraper"
  THEN {quiet(IF o = "raise" THEN "Error: ConnectionError" ELSE o) :
          o \in ScrapeOutcomes}
  ELSE IF call.name = "web_downloader"
  THEN {LET d == download_and_process_file(call.url, cache, nextFileId,
                                           fetchOk, bodyOk, ct, uploadOk)
        IN [out |-> d.ret, cache |-> d.cache, fetched |-> d.fetched,
            uploaded |-> d.uploaded, fid |-> d.fid, dl |-> TRUE] :
          fetchOk \in BOOLEAN, bodyOk \in BOOLEAN, ct \in ContentTypes,
          uploadOk \in BOOLEAN}
  ELSE {quiet("Error")}

\* AppendOutput with failed calls left out of the batch
AppendOutput_SkipErrors(outs, call_id, out) ==
  IF out = "Error" THEN outs
  ELSE Append(outs, [tool_call_id |-> call_id, output |-> out])

\* tool_outputs.append({"tool_call_id": call_id, "output": str(result)})
AppendOutput(outs, call_id, out) ==
  Append(outs, [tool_call_id |-> call_id, output |-> out])

\* one turn of the for loop over required_actions (curl.py:703-768); json.loads
\* of the arguments (line 705) stands before the try block of line 709
ExecTool ==
  /\ UNCHANGED fnv
  /\ pc = "run_loop"
  /\ lp = "exec"
  /\ idx <= Len(run.calls)
  /\ LET call == run.calls[idx] IN
     IF call.args = "malformed"
     THEN /\ Escape("JSONDecodeError")
          /\ localFailed' = TRUE
          /\ UNCHANGED <<run, idx, tool_outputs, returned, cache, service,
                         dlhist, polled, ev, cycleSubmits, lastBatch,
                         execCount, submitCount, httpFailed, extractCalls>>
     ELSE /\ \E h \in HandlerResults(call) :
             /\ tool_outputs' = AppendOutput(tool_outputs, call.id, h.out)
             /\ cache' = h.cache
             /\ nextFileId' = h.fid
             /\ fetches' = IF h.fetched
                           THEN [fetches EXCEPT ![call.url] = @ + 1] ELSE fetches
             /\ uploads' = IF h.uploaded
                           THEN [uploads EXCEPT ![call.url] = @ + 1] ELSE uploads
             /\ dlReturns' = IF h.dl
                             THEN [dlReturns EXCEPT ![call.url] = Append(@, h.out)]
                             ELSE dlReturns
          /\ execCount' = [execCount EXCEPT ![call.id] = Bump(@)]
          /\ ev' = Ev("exec")
          /\ idx' = idx + 1
          /\ lp' = IF idx + 1 > Len(run.calls) THEN "submit" ELSE "exec"
          /\ UNCHANGED <<orch, run, returned, remote, nextCallId, polled,
                         cycleSubmits, lastBatch, submitCount, httpFailed,
                         localFailed, extractCalls>>

\* the call ids of a list of tool outputs, in order
OutputIds(outs) == [i \in 1..Len(outs) |-> outs[i].tool_call_id]

\* POST submit_tool_outputs with the whole list (curl.py:770-774)
Submit ==
  /\ UNCHANGED fnv
  /\ pc = "run_loop"
  /\ lp = "submit"
  /\ ev' = Ev("submit")
  /\ cycleSubmits' = Bump(cycleSubmits)
  /\ lastBatch' = OutputIds(tool_outputs)
  /\ submitCount' = [c \in CallIds |->
                       IF \E i \in 1..Len(tool_outputs) : tool_outputs[i].tool_call_id = c
                       THEN Bump(submitCount[c]) ELSE submitCount[c]]
  /\ \E resp \in Responses :
       \* the service accepts outputs only for a run that waits for them
       /\ resp = "2xx" => remote.status = "requires_action"
       /\ httpFailed' = (httpFailed \/ resp # "2xx")
       /\ remote' = IF resp = "2xx"
                    THEN [status |-> "queued", calls |-> <<>>, last_error |-> None]
                    ELSE remote
       /\ IF make_openai_request(resp) = "raise"
          THEN Escape("HTTPError")
          ELSE /\ lp' = "poll"
               /\ UNCHANGED orch
  /\ UNCHANGED <<run, idx, tool_outputs, returned, cache, nextCallId, nextFileId,
                 dlhist, polled, execCount, localFailed, extractCalls>>

\* IsSuccess as "anything but failed"
IsSuccess_NotFailed(final_status) == final_status # "failed"

\* the test that sends solve_quiz_question to result extraction (curl.py:833)
IsSuccess(final_status) == final_status = "completed"

\* solve_quiz_question after process_run_loop returned (curl.py:830-850)
Finish ==
  /\ UNCHANGED fnv
  /\ pc = "run_loop"
  /\ lp = "returned"
  /\ pc' = "done"
  /\ LET final_status == returned.status IN
     IF IsSuccess(final_status)
     THEN /\ extractCalls' = extractCalls + 1
          /\ \E resp \in Responses :
               /\ httpFailed' = (httpFailed \/ resp # "2xx")
               /\ IF make_openai_request(resp) = "raise"
                  THEN result' = Caught([result EXCEPT !.status = final_status],
                                        "HTTPError")
                  ELSE \E msgs \in SampleThreads :
                         LET x == _extract_assistant_response(msgs) IN
                         result' = [result EXCEPT !.status = final_status,
                                                  !.answer = x.answer,
                                                  !.attachments = x.attachments,
                                                  !.messages = "listing"]
     ELSE /\ result' = [result EXCEPT !.status = final_status,
                                      !.error = returned.last_error]
          /\ UNCHANGED <<extractCalls, httpFailed>>
  /\ UNCHANGED <<driver, cache, service, dlhist, polled, ev, cycleSubmits,
                 lastBatch, execCount, submitCount, localFailed>>

\* ------------------------------------------------- the assistant service
RemoteStep(from, to, err) ==
  /\ UNCHANGED fnv
  /\ remote.status \in from
  /\ remote' = [status |-> to, calls |-> <<>>, last_error |-> err]
  /\ UNCHANGED <<orch, driver, cache, nextCallId, nextFileId, dlhist, hist>>

RemoteStart == RemoteStep({"queued"}, "in_progress", None)

RemoteComplete == RemoteStep({"in_progress"}, "completed", None)

RemoteFail == RemoteStep({"in_progress"}, "failed", "server_error")

RemoteExpire ==
  RemoteStep({"queued", "in_progress", "requires_action"}, "expired", None)

RemoteCancel ==
  RemoteStep({"queued", "in_progress", "requires_action"}, "cancelling", None)

RemoteCancelled == RemoteStep({"cancelling"}, "cancelled", None)

RemoteIncomplete == RemoteStep({"in_progress"}, "incomplete", None)

\* the run asks for tool calls with fresh ids
RemoteRequiresAction ==
  /\ UNCHANGED fnv
  /\ remote.status = "in_progress"
  /\ \E n \in 0..MaxCalls :
       /\ nextCallId + n - 1 <= MaxCallIds
       /\ \E batch \in Batches(nextCallId, n) :
            remote' = [status |-> "requires_action", calls |-> batch,
                       last_error |-> None]
       /\ nextCallId' = nextCallId + n
  /\ UNCHANGED <<orch, driver, cache, nextFileId, dlhist, hist>>

Next ==
  \/ CreateAssistant
  \/ CreateRun
  \/ Poll
  \/ ExecTool
  \/ Submit
  \/ Finish
  \/ RemoteStart
  \/ RemoteRequiresAction
  \/ RemoteComplete
  \/ RemoteFail
  \/ RemoteExpire
  \/ RemoteCancel
  \/ RemoteCancelled
  \/ RemoteIncomplete

Spec == Init /\ [][Next]_vars

\* process_run_loop and solve_quiz_question are straight-line code: a step
\* that can be taken is taken.  Nothing is assumed of the service.
FairSpec ==
  /\ Spec
  /\ WF_vars(CreateAssistant)
  /\ WF_vars(CreateRun)
  /\ WF_vars(Poll)
  /\ WF_vars(ExecTool)
  /\ WF_vars(Submit)
  /\ WF_vars(Finish)

\* ------------------------------------------- functions called on their own
\* urls given to download_and_process_file when it is called on its own
FnUrls ==
  Urls \cup
  { [stem |-> "http://h/doc", ext |-> ".pdf"],
    [stem |-> "http://h/doc.pdf?dl", ext |-> "=1"],
    [stem |-> "http://h/book", ext |-> ".XLSX"],
    [stem |-> "http://h/book", ext |-> ".xls"],
    [stem |-> "http://h/pack", ext |-> ".Zip"],
    [stem |-> "http://h/rows", ext |-> ".json"],
    [stem |-> "http://h/notes", ext |-> ".txt"],
    [stem |-> "http://h/blob", ext |-> ""] }

FnContentTypes == ContentTypes \cup {"application/json", "application/pdf", ""}

\* the entries UPLOADED_FILES_CACHE can hold for a url: none for a url that
\* leaves before line 139, never a file handle for a url with a text extension
CacheValuesFor(url) ==
  IF \/ LowerEndsWith(url, ".pdf") \/ LowerEndsWith(url, ".xlsx")
     \/ LowerEndsWith(url, ".xls") \/ LowerEndsWith(url, ".zip")
  THEN {Absent}
  ELSE IF \/ LowerEndsWith(url, ".csv") \/ LowerEndsWith(url, ".json")
          \/ LowerEndsWith(url, ".txt")
  THEN {Absent, TextMarker}
  ELSE {Absent, TextMarker, CachedHandle(1)}

\* download_and_process_file(url) called on its own
CallDownload ==
  /\ fnCall.fn = "none"
  /\ \E url \in FnUrls, other \in FnUrls, fetchOk \in BOOLEAN,
        bodyOk \in BOOLEAN, ct \in FnContentTypes, uploadOk \in BOOLEAN :
       \E v \in CacheValuesFor(url), w \in CacheValuesFor(other) :
         LET c == [u \in FnUrls |-> IF u = url THEN v
                                    ELSE IF u = other THEN w ELSE Absent]
             d == download_and_process_file(url, c, 2, fetchOk, bodyOk, ct, uploadOk)
         IN /\ fnCall' = [fn |-> "download_and_process_file", url |-> url,
                          cache |-> c, fetchOk |-> fetchOk,
                          bodyOk |-> bodyOk, ct |-> ct, uploadOk |-> uploadOk]
            /\ fnOut' = [kind |-> "return", ret |-> d.ret, cache |-> d.cache,
                         fetched |-> d.fetched, uploaded |-> d.uploaded,
                         left |-> d.left]
  /\ UNCHANGED <<orch, driver, cache, service, dlhist, hist>>

ExcelUrls == {u \in FnUrls : LowerEndsWith(u, ".xlsx") \/ LowerEndsWith(u, ".xls")}

\* download_excel_raw(url) called on its own (the excel_parser tool)
CallExcel ==
  /\ fnCall.fn = "none"
  /\ \E url \in ExcelUrls \cup {PageUrl}, fetchOk \in BOOLEAN, uploadOk \in BOOLEAN :
       LET x == download_excel_raw(url, 2, fetchOk, uploadOk) IN
       /\ fnCall' = [fn |-> "download_excel_raw", url |-> url,
                     fetchOk |-> fetchOk, uploadOk |-> uploadOk]
       /\ fnOut' = [kind |-> "return", ret |-> x.ret, left |-> x.left]
  /\ UNCHANGED <<orch, driver, cache, service, dlhist, hist>>

AudioUrls == {[stem |-> "http://h/clip", ext |-> e] : e \in {".mp3", ".opus", ".OPUS"}}

\* transcribe_audio_file(url) called on its own (the audio_transcriber tool)
CallTranscribe ==
  /\ fnCall.fn = "none"
  /\ \E url \in AudioUrls, fetchOk \in BOOLEAN, answer \in TranscribeAnswers :
       LET t == transcribe_audio_file(url, fetchOk, answer) IN
       /\ fnCall' = [fn |-> "transcribe_audio_file", url |-> url,
                     fetchOk |-> fetchOk, answer |-> answer]
       /\ fnOut' = [kind |-> "return", ret |-> t.ret, left |-> t.left]
  /\ UNCHANGED <<orch, driver, cache, service, dlhist, hist>>

\* get_page_source_local(url) called on its own
CallPageSource ==
  /\ fnCall.fn = "none"
  /\ \E browser \in BrowserOutcomes, fallbackOk \in BOOLEAN :
       LET g == get_page_source_local(PageUrl, browser, fallbackOk) IN
       /\ fnCall' = [fn |-> "get_page_source_local", url |-> PageUrl,
                     browser |-> browser, fallbackOk |-> fallbackOk]
       /\ fnOut' = g
  /\ UNCHANGED <<orch, driver, cache, service, dlhist, hist>>

\* the extraction operations process_run_loop calls
ExtractionOps ==
  {"scrape_html", "scrape_md", "download_and_process_file", "scrape_pdf",
   "transcribe_audio_file", "parse_excel", "extract_tables_from_html",
   "extract_zip", "query_json_path", "analyze_image_with_vision"}

\* what an extraction operation hands to process_run_loop when the browser,
\* the plain fetch and the remote endpoint fare as given
Extraction(op, browser, fetchOk, remoteOk) ==
  LET ret(r) == [kind |-> "return", ret |-> r] IN
  CASE op = "scrape_html" ->
         LET g == scrape_html(PageUrl, browser, fetchOk)
         IN [kind |-> g.kind, ret |-> g.ret]
    [] op = "scrape_md" ->
         LET g == scrape_md(PageUrl, browser, fetchOk)
         IN [kind |-> g.kind, ret |-> g.ret]
    [] op = "extract_tables_from_html" ->
         LET g == extract_tables_from_html(PageUrl, browser, fetchOk)
         IN [kind |-> g.kind, ret |-> g.ret]
    [] op = "download_and_process_file" ->
         ret(download_and_process_file(PngUrl, [u \in Urls |-> Absent], 2,
                                       fetchOk, TRUE, "image/png", remoteOk).ret)
    [] op = "scrape_pdf" -> ret(scrape_pdf(PdfUrl, fetchOk))
    [] op = "transcribe_audio_file" ->
         ret(transcribe_audio_file([stem |-> "http://h/clip", ext |-> ".mp3"],
                                   fetchOk, IF remoteOk THEN "200" ELSE "500").ret)
    [] op = "parse_excel" ->
         ret(parse_excel([stem |-> "http://h/book", ext |-> ".xls"], 2,
                         fetchOk, remoteOk).ret)
    [] op = "extract_zip" -> ret(extract_zip(PageUrl, fetchOk))
    [] op = "query_json_path" -> ret(query_json_path(PageUrl, fetchOk, remoteOk))
    [] op = "analyze_image_with_vision" ->
         ret(analyze_image_with_vision(PngUrl, fetchOk, remoteOk))

\* one extraction operation called as process_run_loop calls it
CallExtraction ==
  /\ fnCall.fn = "none"
  /\ \E op \in ExtractionOps, browser \in BrowserOutcomes,
        fetchOk \in BOOLEAN, remoteOk \in BOOLEAN :
       /\ fnCall' = [fn |-> "extraction", op |-> op, browser |-> browser,
                     fetchOk |-> fetchOk, remoteOk |-> remoteOk]
       /\ fnOut' = Extraction(op, browser, fetchOk, remoteOk)
  /\ UNCHANGED <<orch, driver, cache, service, dlhist, hist>>

\* content sizes around the slices of the handlers
ContentLens == {0, 120, 20000, 20001, 30000, 45000}

\* the reply of the vision endpoint is requested with max_tokens 2000
VisionReplyLens == {0, 120}

ContentLensOf(tool) ==
  IF tool \in {"image_ocr", "image_analyzer"} THEN VisionReplyLens ELSE ContentLens

\* one tool call handled and its output appended (curl.py:768)
CallTool ==
  /\ fnCall.fn = "none"
  /\ \E tool \in Tools :
       \E n \in ContentLensOf(tool) :
         /\ fnCall' = [fn |-> "tool_output", tool |-> tool, n |-> n]
         /\ fnOut' = [kind |-> "return", len |-> ToolOutputLen(tool, n)]
  /\ UNCHANGED <<orch, driver, cache, service, dlhist, hist>>

\* lengths of the urls handed to pdf_scraper
UrlLens == {40, 25000}

\* scrape_pdf(url) called on its own
CallPdf ==
  /\ fnCall.fn = "none"
  /\ \E textLen \in ContentLens, fetchOk \in BOOLEAN, urlLen \in UrlLens :
       /\ fnCall' = [fn |-> "scrape_pdf", textLen |-> textLen,
                     fetchOk |-> fetchOk, urlLen |-> urlLen]
       /\ fnOut' = [kind |-> "return",
                    len |-> scrape_pdf_len(textLen, fetchOk, urlLen)]
  /\ UNCHANGED <<orch, driver, cache, service, dlhist, hist>>

\* decoded data_json of the api_request calls
Payloads == [{"chart", "note"} -> {Sentinel, "hello"}]

\* an api_request POST call handled by its branch of the loop
CallApiPost ==
  /\ fnCall.fn = "none"
  /\ \E payload \in Payloads, msgs \in SampleThreads,
        lookupOk \in BOOLEAN, downloadOk \in BOOLEAN, postOk \in BOOLEAN :
       LET p == api_request_post(payload, msgs, lookupOk, downloadOk, postOk) IN
       /\ fnCall' = [fn |-> "api_request", payload |-> payload, msgs |-> msgs,
                     lookupOk |-> lookupOk, downloadOk |-> downloadOk,
                     postOk |-> postOk]
       /\ fnOut' = [kind |-> "request", sent |-> p.sent, posted |-> p.posted,
                    out |-> p.out]
  /\ UNCHANGED <<orch, driver, cache, service, dlhist, hist>>

\* _extract_assistant_response called on the listing of a thread
CallExtractResponse ==
  /\ fnCall.fn = "none"
  /\ \E msgs \in SampleThreads :
       LET r == _extract_assistant_response(msgs) IN
       /\ fnCall' = [fn |-> "_extract_assistant_response", msgs |-> msgs]
       /\ fnOut' = [kind |-> "return", answer |-> r.answer,
                    attachments |-> r.attachments]
  /\ UNCHANGED <<orch, driver, cache, service, dlhist, hist>>

\* request bodies: not JSON, JSON that is no object (null, a list), and
\* objects with each field absent, empty or set
Requests ==
  {[kind |-> k, email |-> Absent, secret |-> Absent, url |-> Absent] :
     k \in {"invalid_json", "not_dict"}}
  \cup [kind : {"dict"},
        email : {Absent, "", "a@b.c"},
        secret : {Absent, "", "wrong", USER_SECRET},
        url : {Absent, "", "http://quiz"}]

\* the results solve_quiz_question returns (curl.py:807-858)
SolverResults ==
  {[status |-> "completed", answer |-> x.answer, thread_id |-> "thread_1",
    run_id |-> "run_1", attachments |-> x.attachments, error |-> Absent,
    messages |-> "listing"] :
     x \in {_extract_assistant_response(msgs) : msgs \in SampleThreads}}
  \cup {[status |-> st, answer |-> None, thread_id |-> "thread_1",
         run_id |-> "run_1", attachments |-> <<>>, error |-> e,
         messages |-> Absent] :
          st \in TerminalStatuses \ {"completed"}, e \in {"server_error", None}}
  \cup {[status |-> "error", answer |-> None, thread_id |-> id[1],
         run_id |-> id[2], attachments |-> <<>>, error |-> e,
         messages |-> Absent] :
          id \in {<<None, None>>, <<"thread_1", "run_1">>},
          e \in {"HTTPError", "JSONDecodeError"}}

\* one request to POST /api/quiz_solver
CallQuizSolver ==
  /\ fnCall.fn = "none"
  /\ \E req \in Requests, solver_response \in SolverResults :
       /\ fnCall' = [fn |-> "quiz_solver", req |-> req,
                     solver_response |-> solver_response]
       /\ fnOut' = quiz_solver(req, solver_response)
  /\ UNCHANGED <<orch, driver, cache, service, dlhist, hist>>

\* archives of up to MaxEntries entries, in the archive's own order
RECURSIVE Archives(_)
Archives(n) ==
  IF n = 0 THEN {<<>>}
  ELSE LET shorter == Archives(n - 1) IN
       shorter \cup {Append(a, entry) : a \in {s \in shorter : Len(s) = n - 1},
                                        entry \in ArchiveEntries}

\* extract_zip(url) called on its own, on an archive that was fetched
CallZip ==
  /\ fnCall.fn = "none"
  /\ \E entries \in Archives(MaxEntries) :
       LET z == extract_zip_output(entries) IN
       /\ fnCall' = [fn |-> "extract_zip", entries |-> entries]
       /\ fnOut' = [kind |-> "return", names |-> z.names, parts |-> z.parts,
                    full |-> z.full, len |-> z.len]
  /\ UNCHANGED <<orch, driver, cache, service, dlhist, hist>>

\* the shapes of a call's arguments
ArgShapes ==
  [shape : {"ok", "malformed", "missing"},
   format : {Absent, "html", "markdown"},
   method : {"GET", "POST"}]

\* one tool call of a requires_action record taken through a turn of the loop
CallHandle ==
  /\ fnCall.fn = "none"
  /\ \E func_name \in Tools \cup {"unknown_tool"}, args \in ArgShapes,
        handlerOk \in BOOLEAN :
       /\ fnCall' = [fn |-> "tool_call", name |-> func_name, args |-> args,
                     handlerOk |-> handlerOk]
       /\ fnOut' = HandleCall(func_name, args, handlerOk)
  /\ UNCHANGED <<orch, driver, cache, service, dlhist, hist>>

\* download_and_process_file(url) called twice in a row for one url,
\* starting from an empty cache; ok1, ok2: whether the requests of the first
\* and of the second call succeed
CallDownloadTwice ==
  /\ fnCall.fn = "none"
  /\ \E url \in FnUrls, ct \in FnContentTypes, ok1 \in BOOLEAN, ok2 \in BOOLEAN :
       LET empty == [u \in FnUrls |-> Absent]
           d1 == download_and_process_file(url, empty, 2, ok1, ok1, ct, ok1)
           d2 == download_and_process_file(url, d1.cache, d1.fid, ok2, ok2, ct, ok2)
       IN /\ fnCall' = [fn |-> "download_twice", url |-> url, ct |-> ct,
                        ok1 |-> ok1, ok2 |-> ok2]
          /\ fnOut' = [kind |-> "return",
                       first |-> [ret |-> d1.ret, cache |-> d1.cache, fid |-> d1.fid],
                       second |-> [ret |-> d2.ret, cache |-> d2.cache, fid |-> d2.fid]]
  /\ UNCHANGED <<orch, driver, cache, service, dlhist, hist>>

\* the secrets a caller submits and a server is configured with
Secrets == {None, "", "  ", "yoursecret", " yoursecret ", "wrong", "pad", " pad "}

\* the secret check with its first two tests in the other order
solve_quiz_question_SubmittedFirst(submitted_secret, actual_secret) ==
  IF Falsy(submitted_secret)
  THEN [correct |-> FALSE, message |-> "Please provide a secret value."]
  ELSE IF Falsy(actual_secret)
  THEN [correct |-> FALSE,
        message |-> "Server secret is not configured. Please set USER_SECRET."]
  ELSE IF Strip(submitted_secret) = actual_secret
  THEN [correct |-> TRUE, message |-> "Secret accepted. Great job!"]
  ELSE [correct |-> FALSE, message |-> "Secret mismatch. Try again."]

\* solve_quiz_question(submitted_secret, actual_secret) of the secret
\* helper module: the QuizResult it returns
solve_quiz_question(submitted_secret, actual_secret) ==
  IF Falsy(actual_secret)
  THEN [correct |-> FALSE,
        message |-> "Server secret is not configured. Please set USER_SECRET."]
  ELSE IF Falsy(submitted_secret)
  THEN [correct |-> FALSE, message |-> "Please provide a secret value."]
  ELSE IF Strip(submitted_secret) = actual_secret
  THEN [correct |-> TRUE, message |-> "Secret accepted. Great job!"]
  ELSE [correct |-> FALSE, message |-> "Secret mismatch. Try again."]

\* one call of the secret check
CallSecretCheck ==
  /\ fnCall.fn = "none"
  /\ \E submitted_secret \in Secrets, actual_secret \in Secrets :
       /\ fnCall' = [fn |-> "secret_check", submitted |-> submitted_secret,
                     actual |-> actual_secret]
       /\ fnOut' = solve_quiz_question(submitted_secret, actual_secret)
  /\ UNCHANGED <<orch, driver, cache, service, dlhist, hist>>

FnNext ==
  \/ CallSecretCheck
  \/ CallDownloadTwice
  \/ CallHandle
  \/ CallZip
  \/ CallQuizSolver
  \/ CallApiPost
  \/ CallExtractResponse
  \/ CallTool
  \/ CallPdf
  \/ CallDownload
  \/ CallExcel
  \/ CallTranscribe
  \/ CallPageSource
  \/ CallExtraction

\* one function of the module called once, on any input
FnSpec == Init /\ [][FnNext]_vars

\* ------------------------------------- two callers of the download at once
\* Two requests served at the same time (Flask serves each request on its
\* own thread) both reach download_and_process_file, which shares
\* UPLOADED_FILES_CACHE and the working directory.  fnCall holds where each
\* caller stands and its url; fnOut the files on disk and what each caller
\* did and returned.
Callers == {1, 2}
Other(t) == 3 - t

\* urls that pass the extension tests of lines 127-137
CacheableUrls == {PngUrl, CsvUrl}

\* positions between the cache test and the storing of the handle
InFlight == {"fetch", "write", "upload", "record"}

ConcOthers == <<orch, driver, remote, nextCallId, dlReturns, hist>>

\* both calls are entered
ConcStart ==
  /\ fnCall.fn = "none"
  /\ \E urls \in [Callers -> CacheableUrls] :
       fnCall' = [fn |-> "concurrent", url |-> urls,
                  at |-> [t \in Callers |-> "check"]]
  /\ fnOut' = [kind |-> "concurrent", files |-> {},
               ret |-> [t \in Callers |-> None],
               fid |-> [t \in Callers |-> 0],
               wrote |-> [t \in Callers |-> FALSE],
               removed |-> [t \in Callers |-> FALSE],
               raced |-> FALSE]
  /\ UNCHANGED <<ConcOthers, cache, nextFileId, fetches, uploads>>

ConcAt(t, where) == fnCall.fn = "concurrent" /\ fnCall.at[t] = where

ConcReturn(t, value) ==
  /\ fnCall' = [fnCall EXCEPT !.at[t] = "done"]
  /\ fnOut' = [fnOut EXCEPT !.ret[t] = value]

\* ConcCheck without the test: every caller goes on to fetch
ConcCheck_NoTest(t) ==
  /\ ConcAt(t, "check")
  /\ fnCall' = [fnCall EXCEPT !.at[t] = "fetch"]
  /\ fnOut' = [fnOut EXCEPT !.raced =
                 @ \/ (/\ fnCall.url[Other(t)] = fnCall.url[t]
                       /\ fnCall.at[Other(t)] \in InFlight)]
  /\ UNCHANGED <<ConcOthers, cache, nextFileId, fetches, uploads>>

\* if url in UPLOADED_FILES_CACHE (curl.py:139-142)
ConcCheck(t) ==
  /\ ConcAt(t, "check")
  /\ LET url == fnCall.url[t] IN
     IF cache[url] # Absent
     THEN ConcReturn(t, cache[url])
     ELSE /\ fnCall' = [fnCall EXCEPT !.at[t] = "fetch"]
          /\ fnOut' = [fnOut EXCEPT !.raced =
                         @ \/ (/\ fnCall.url[Other(t)] = url
                               /\ fnCall.at[Other(t)] \in InFlight)]
  /\ UNCHANGED <<ConcOthers, cache, nextFileId, fetches, uploads>>

\* the GET and the text path (curl.py:146-163)
ConcFetch(t) ==
  /\ ConcAt(t, "fetch")
  /\ LET url == fnCall.url[t] IN
     /\ fetches' = [fetches EXCEPT ![url] = @ + 1]
     /\ \E fetchOk \in BOOLEAN, bodyOk \in BOOLEAN, ct \in ContentTypes :
          IF ~fetchOk
          THEN ConcReturn(t, "Error processing file: HTTPError") /\ UNCHANGED cache
          ELSE IF MentionsText(ct) \/ LowerEndsWith(url, ".csv")
          THEN /\ cache' = CacheAfterText(cache, url)
               /\ ConcReturn(t, IF bodyOk THEN Body(url)
                                ELSE "Error processing file: ChunkedEncodingError")
          ELSE /\ fnCall' = [fnCall EXCEPT !.at[t] = "write"]
               /\ UNCHANGED <<fnOut, cache>>
  /\ UNCHANGED <<ConcOthers, nextFileId, uploads>>

\* the transient file is created and filled (curl.py:167-169)
ConcWrite(t) ==
  /\ ConcAt(t, "write")
  /\ LET name == TransientName(fnCall.url[t]) IN
     \E bodyOk \in BOOLEAN :
       /\ fnCall' = [fnCall EXCEPT !.at[t] = IF bodyOk THEN "upload" ELSE "done"]
       /\ fnOut' = [fnOut EXCEPT
                      !.files = @ \cup {name},
                      !.wrote[t] = TRUE,
                      !.ret[t] = IF bodyOk THEN @
                                 ELSE "Error processing file: ChunkedEncodingError"]
  /\ UNCHANGED <<ConcOthers, cache, nextFileId, fetches, uploads>>

\* the file is opened again and uploaded (curl.py:174-179)
ConcUpload(t) ==
  /\ ConcAt(t, "upload")
  /\ LET url == fnCall.url[t] IN
     IF TransientName(url) \notin fnOut.files
     THEN /\ ConcReturn(t, "Error processing file: FileNotFoundError")
          /\ UNCHANGED <<nextFileId, uploads>>
     ELSE \E uploadOk \in BOOLEAN :
            IF ~uploadOk
            THEN /\ ConcReturn(t, "Error processing file: HTTPError")
                 /\ UNCHANGED <<nextFileId, uploads>>
            ELSE /\ fnCall' = [fnCall EXCEPT !.at[t] = "record"]
                 /\ fnOut' = [fnOut EXCEPT !.fid[t] = nextFileId]
                 /\ nextFileId' = nextFileId + 1
                 /\ uploads' = [uploads EXCEPT ![url] = @ + 1]
  /\ UNCHANGED <<ConcOthers, cache, fetches>>

\* UPLOADED_FILES_CACHE[url] = f"File ID: {file_id}" (curl.py:181)
ConcRecord(t) ==
  /\ ConcAt(t, "record")
  /\ cache' = CacheAfterUpload(cache, fnCall.url[t], fnOut.fid[t])
  /\ fnCall' = [fnCall EXCEPT !.at[t] = "remove"]
  /\ UNCHANGED <<ConcOthers, fnOut, nextFileId, fetches, uploads>>

\* os.remove(filename) and the return (curl.py:182-184)
ConcRemove(t) ==
  /\ ConcAt(t, "remove")
  /\ LET name == TransientName(fnCall.url[t]) IN
     IF name \in fnOut.files
     THEN /\ fnCall' = [fnCall EXCEPT !.at[t] = "done"]
          /\ fnOut' = [fnOut EXCEPT !.files = @ \ {name},
                                    !.removed[t] = TRUE,
                                    !.ret[t] = UploadMessage(fnOut.fid[t])]
     ELSE ConcReturn(t, "Error processing file: FileNotFoundError")
  /\ UNCHANGED <<ConcOthers, cache, nextFileId, fetches, uploads>>

ConcNext ==
  \/ ConcStart
  \/ \E t \in Callers : ConcCheck(t)
  \/ \E t \in Callers : ConcFetch(t)
  \/ \E t \in Callers : ConcWrite(t)
  \/ \E t \in Callers : ConcUpload(t)
  \/ \E t \in Callers : ConcRecord(t)
  \/ \E t \in Callers : ConcRemove(t)

\* two calls of download_and_process_file interleaved statement by statement
ConcSpec == Init /\ [][ConcNext]_vars

\* ------------------------------------------------------------------- claims
CallIdsOf(calls) == [i \in 1..Len(calls) |-> calls[i].id]

\* C1: after a poll that showed requires_action with N tool calls, the driver
\* submits exactly once before it polls again, and the batch holds the N call
\* ids of the polled record in their order.
C1_OneBatchPerCycle ==
  [][ /\ cycleSubmits' <= 1
      /\ cycleSubmits' = 1 =>
           /\ polled'.status = "requires_action"
           /\ lastBatch' = CallIdsOf(polled'.calls)
      /\ (ev' # ev /\ ev'[1] = "poll" /\ polled.status = "requires_action") =>
           cycleSubmits = 1 ]_vars

C1_Witness ==
  /\ lp = "poll"
  /\ polled.status = "requires_action"
  /\ Len(polled.calls) = 2
  /\ cycleSubmits = 1
  /\ lastBatch = <<CallId(1), CallId(2)>>

\* C2: no failure in the handling of a tool call ends the cycle: the driver
\* leaves process_run_loop by an exception only when a remote call failed.
C2_FailureStaysInCall == lp = "raised" => httpFailed

\* C3: process_run_loop has returned only if its latest poll showed a terminal
\* status; it returns the record of that poll; once it has returned the driver
\* polls, executes and submits nothing.
C3_ReturnsOnTerminal ==
  [][ /\ lp' = "returned" =>
           /\ returned'.status \in TerminalStatuses
           /\ returned' = polled'
           /\ ev'[1] = "poll"
      /\ lp = "returned" =>
           /\ lp' = "returned"
           /\ ev' = ev
           /\ returned' = returned
           /\ UNCHANGED <<execCount, submitCount, cycleSubmits>> ]_vars

C3_Witness ==
  /\ lp = "returned"
  /\ returned.status = "failed"
  /\ returned.last_error = "server_error"
  /\ submitCount[CallId(1)] = 1

RemoteTerminal == remote.status \in TerminalStatuses

\* C4: if the remote run ends in a terminal status and no remote call fails,
\* process_run_loop returns; if the run stays in a non-terminal status and no
\* remote call fails, the driver never returns and polls again and again.
C4_ReturnsIffTerminal ==
  /\ (<>[]RemoteTerminal /\ []~httpFailed) => <>(lp = "returned")
  /\ (<>[](remote.status = "incomplete") /\ []~httpFailed) =>
       ([](lp # "returned") /\ []<>(ev = <<"poll", 0>>) /\ []<>(ev = <<"poll", 1>>))

\* C5: a tool call is handled at most once and its output submitted at most
\* once, and whenever the driver is between cycles or has stopped, every call
\* whose handler ran has had its output submitted.
C5_ExactlyOnce ==
  \A c \in CallIds :
    /\ execCount[c] <= 1
    /\ submitCount[c] <= 1
    /\ lp \in {"poll", "returned", "raised"} => submitCount[c] = execCount[c]

\* C6: solve_quiz_question ends with a result; when a step failed, the result
\* carries the failure in error and its status is not completed.
C6_FailureInResult ==
  (pc = "done" /\ (httpFailed \/ localFailed)) =>
    /\ result.error \in {"HTTPError", "JSONDecodeError"}
    /\ result.status # "completed"

C6_Witness ==
  /\ pc = "done"
  /\ extractCalls = 1
  /\ httpFailed
  /\ result.status = "error"
  /\ result.error = "HTTPError"

\* C7: for a run that ended failed, cancelled or expired, the orchestrator
\* does not call result extraction; the result has that status, no answer, no
\* attachments and the run's last_error as error.
C7_NoAnswerOnFailure ==
  (pc = "done" /\ lp = "returned" /\ returned.status # "completed") =>
    /\ extractCalls = 0
    /\ result.status = returned.status
    /\ result.status \in {"failed", "cancelled", "expired"}
    /\ result.answer = None
    /\ result.attachments = <<>>
    /\ result.messages = Absent
    /\ result.error = returned.last_error

C7_Witness ==
  /\ pc = "done"
  /\ lp = "returned"
  /\ returned.status = "cancelled"
  /\ result.status = "cancelled"
  /\ result.error = None

\* C8: a non-2xx answer to a remote call ends the attempt: the result has
\* status error and holds the error, and no poll, tool execution, submission
\* or extraction follows.
C8_HttpErrorEndsAttempt ==
  [][ /\ httpFailed' =>
           /\ pc' = "done"
           /\ result'.status = "error"
           /\ result'.error = "HTTPError"
      /\ httpFailed =>
           /\ ev' = ev
           /\ UNCHANGED <<execCount, submitCount, extractCalls, result>> ]_vars

C8_Witness ==
  /\ httpFailed
  /\ lp = "raised"
  /\ ev[1] = "submit"
  /\ result.status = "error"
  /\ result.thread_id = "thread_1"

FileNumbers == 1..MaxCallIds
IsHandleReturn(r) ==
  \E n \in FileNumbers : r \in {UploadMessage(n), CachedHandle(n)}

\* C9 as stated: every request of an uploaded url returns the same string,
\* and the url is uploaded at most once.
C9_IdenticalHandle ==
  \A u \in Urls :
    /\ uploads[u] <= 1
    /\ \A i, j \in 1..Len(dlReturns[u]) :
         (IsHandleReturn(dlReturns[u][i]) /\ IsHandleReturn(dlReturns[u][j])) =>
           dlReturns[u][i] = dlReturns[u][j]

\* C9 amended: the request that uploads a url returns the upload message with
\* the new file id, every later request of the url returns the cached string
\* "File ID: <id>" with that same id, and the url is uploaded at most once.
C9_SameFileId ==
  \A u \in Urls :
    /\ uploads[u] <= 1
    /\ \A i \in 1..Len(dlReturns[u]) : \A n \in FileNumbers :
         dlReturns[u][i] = UploadMessage(n) =>
           /\ uploads[u] = 1
           /\ \A j \in (i + 1)..Len(dlReturns[u]) :
                dlReturns[u][j] = CachedHandle(n)

C9_Witness ==
  /\ Len(dlReturns[PngUrl]) >= 2
  /\ dlReturns[PngUrl][1] = UploadMessage(1)
  /\ dlReturns[PngUrl][2] = CachedHandle(1)

Last(q) == q[Len(q)]

\* C10: once download_and_process_file has returned the body of a url, the
\* cache holds the marker for it, and every later request returns the marker
\* and sends no GET.
C10_TextMarker ==
  [][ \A u \in Urls :
        /\ (dlReturns'[u] # dlReturns[u] /\ Last(dlReturns'[u]) = Body(u)) =>
             cache'[u] = TextMarker
        /\ cache[u] = TextMarker =>
             /\ cache'[u] = TextMarker
             /\ fetches'[u] = fetches[u]
             /\ dlReturns'[u] # dlReturns[u] => Last(dlReturns'[u]) = TextMarker ]_vars

C10_Witness ==
  /\ Len(dlReturns[CsvUrl]) >= 2
  /\ dlReturns[CsvUrl][1] = Body(CsvUrl)
  /\ dlReturns[CsvUrl][2] = TextMarker
  /\ fetches[CsvUrl] = 1

\* C11: an entry of the resource cache, once recorded for a url, is never
\* removed and never replaced by another value.
C11_CacheOnlyGrows ==
  [][ \A u \in Urls : cache[u] # Absent => cache'[u] = cache[u] ]_vars

C11_Witness ==
  /\ cache[CsvUrl] = TextMarker
  /\ cache[PngUrl] = CachedHandle(1)
  /\ Len(dlReturns[CsvUrl]) >= 1
  /\ Len(dlReturns[PngUrl]) >= 2

\* the rule of the classification chain that a url with Content-Type ct falls
\* under, by extension first
C12_Rule(url, ct) ==
  IF url.ext \in {".pdf", ".PDF"} THEN "pdf"
  ELSE IF url.ext \in {".xlsx", ".XLSX", ".xls"} THEN "excel"
  ELSE IF url.ext \in {".zip", ".Zip"} THEN "zip"
  ELSE IF \/ ct \in {"text/csv", "application/json"}
          \/ url.ext \in {".csv", ".json", ".txt"}
  THEN "text"
  ELSE "binary"

\* the extraction path a return value of download_and_process_file comes from
C12_PathOf(ret) ==
  CASE ret \in {"pdf text", "Error extracting PDF text: HTTPError"} -> "pdf"
    [] ret \in {"Excel file uploaded. File ID: file-2. Use Code Interpreter with pandas to read and process this file: pd.read_excel(file_path)",
                "Error downloading Excel: HTTPError"} -> "excel"
    [] ret \in {"Files in archive: []\n\n", "Error extracting ZIP: HTTPError"} -> "zip"
    [] ret \in {"body of " \o u.stem \o u.ext : u \in FnUrls} -> "text"
    [] ret = "File uploaded successfully. ID: file-2. Use this ID with Code Interpreter tools." -> "binary"
    [] ret \in {"Data already downloaded.", "File ID: file-1"} -> "cached"
    [] OTHER -> "error"

\* C12: download_and_process_file takes the one path of the first rule that
\* matches in the order .pdf, .xlsx/.xls, .zip, text, opaque binary; the first
\* three never read or write the cache, and the last two are entered only on
\* a cache miss (a hit returns the entry and does nothing else).
C12_FirstMatchWins ==
  fnCall.fn = "download_and_process_file" =>
    LET rule == C12_Rule(fnCall.url, fnCall.ct)
        path == C12_PathOf(fnOut.ret)
        hit == fnCall.cache[fnCall.url] # Absent
    IN /\ rule \in {"pdf", "excel", "zip"} =>
            /\ path = rule
            /\ fnOut.cache = fnCall.cache
            /\ ~fnOut.fetched
       /\ (rule \in {"text", "binary"} /\ hit) =>
            /\ path = "cached"
            /\ fnOut.ret = fnCall.cache[fnCall.url]
            /\ fnOut.cache = fnCall.cache
            /\ ~fnOut.fetched /\ ~fnOut.uploaded
       /\ (rule \in {"text", "binary"} /\ ~hit) =>
            /\ fnOut.fetched
            /\ path = IF /\ fnCall.fetchOk /\ fnCall.bodyOk
                         /\ (rule = "text" \/ fnCall.uploadOk)
                      THEN rule ELSE "error"
            /\ fnOut.uploaded = (path = "binary")
            /\ \A u \in FnUrls \ {fnCall.url} : fnOut.cache[u] = fnCall.cache[u]

C12_Witness ==
  /\ fnCall.fn = "download_and_process_file"
  /\ fnCall.url = PdfUrl
  /\ fnCall.ct = "text/csv"
  /\ fnCall.cache[CsvUrl] = TextMarker
  /\ fnOut.ret = "pdf text"

\* C13: when transcribe_audio_file, download_and_process_file or
\* download_excel_raw returns, no transient file it wrote is left on disk.
C13_TransientFilesRemoved ==
  fnCall.fn \in {"transcribe_audio_file", "download_and_process_file",
                 "download_excel_raw"} => fnOut.left = {}

\* C14: every extraction operation called by process_run_loop hands it a
\* string, whatever fails inside; none raises.
C14_ExtractionNeverRaises ==
  fnCall.fn = "extraction" => fnOut.kind = "return"

\* C15: get_page_source_local returns the rendered page if the browser renders
\* it, else the body of the plain fetch, else the empty string; it does not
\* raise and leaves no browser session running.
C15_RenderFallback ==
  fnCall.fn = "get_page_source_local" =>
    /\ fnOut.kind = "return"
    /\ fnOut.ret = IF fnCall.browser = "renders" THEN "<html>rendered</html>"
                   ELSE IF fnCall.fallbackOk THEN "<html>plain</html>"
                   ELSE ""
    /\ fnOut.session # "live"

\* C16: every tool output the driver submits, for every tool and every input,
\* is at most 30,000 characters long.
C16_OutputCeiling ==
  fnCall.fn = "tool_output" => fnOut.len <= 30000

\* C17: PDF extraction never raises and never returns more than 20,000
\* characters, whether it succeeds or fails.
C17_PdfBounded ==
  fnCall.fn = "scrape_pdf" => fnOut.kind = "return" /\ fnOut.len <= 20000

\* the most recent assistant-authored message of a listing (newest first);
\* a message without parts when there is none
LatestAssistant(msgs) ==
  LET is == {i \in 1..Len(msgs) : msgs[i].role = "assistant"} IN
  IF is = {} THEN [role |-> "assistant", content |-> <<>>]
  ELSE msgs[CHOOSE i \in is : \A j \in is : i <= j]

PartsOfType(msg, type) ==
  LET F[i \in 0..Len(msg.content)] ==
        IF i = 0 THEN <<>>
        ELSE IF msg.content[i].type = type
        THEN Append(F[i - 1], msg.content[i].value)
        ELSE F[i - 1]
  IN F[Len(msg.content)]

IsDataUri(v) ==
  \E f \in FileIds : v = "data:image/png;base64," \o Base64Content(f)

\* C18: when a POST payload holds the sentinel under a key and the thread's
\* most recent assistant message has an image attachment, the payload sent
\* holds a data:image/png;base64, string under that key, never the sentinel.
C18_SentinelReplaced ==
  (/\ fnCall.fn = "api_request"
   /\ PartsOfType(LatestAssistant(fnCall.msgs), "image_file") # <<>>)
  => \A key \in DOMAIN fnCall.payload :
       fnCall.payload[key] = Sentinel =>
         /\ IsDataUri(fnOut.sent[key])
         /\ fnOut.sent[key] # Sentinel

\* C19: the answer and the attachments come from the most recent assistant
\* message only: its first text part, and exactly its image-file parts.
C19_LatestMessageOnly ==
  fnCall.fn = "_extract_assistant_response" =>
    LET msg == LatestAssistant(fnCall.msgs) IN
    /\ fnOut.answer = (IF PartsOfType(msg, "text") = <<>> THEN ""
                       ELSE Strip(PartsOfType(msg, "text")[1]))
    /\ fnOut.attachments = PartsOfType(msg, "image_file")

C20_Fields == {"email", "secret", "url"}

\* a field of the request is missing or empty
C20_Lacks(req, field) == req[field] \in {Absent, ""}

\* C20: the endpoint answers 400 on a malformed body or a missing or empty
\* field, 403 when all fields are there and the secret differs, 500 with the
\* solver's status, message, thread_id and run_id when the solver result is
\* not completed, 200 with status, thread_id, run_id, answer, attachments and
\* email otherwise; a request lacking a field gets 400, never 403.
C20_EndpointAnswers ==
  fnCall.fn = "quiz_solver" =>
    LET req == fnCall.req
        sr == fnCall.solver_response
        malformed == req.kind # "dict"
        lacking == \E field \in C20_Fields : C20_Lacks(req, field)
    IN
    /\ (malformed \/ lacking) => fnOut.code = 400 /\ ~fnOut.called
    /\ (~malformed /\ ~lacking /\ req.secret # USER_SECRET) =>
         fnOut.code = 403 /\ ~fnOut.called
    /\ (~malformed /\ ~lacking /\ req.secret = USER_SECRET
          /\ sr.status # "completed") =>
         /\ fnOut.code = 500
         /\ DOMAIN fnOut.body = {"status", "message", "thread_id", "run_id"}
         /\ fnOut.body.status = sr.status
         /\ fnOut.body.message = sr.error
         /\ fnOut.body.thread_id = sr.thread_id
         /\ fnOut.body.run_id = sr.run_id
    /\ (~malformed /\ ~lacking /\ req.secret = USER_SECRET
          /\ sr.status = "completed") =>
         /\ fnOut.code = 200
         /\ fnOut.body = [status |-> "ok", thread_id |-> sr.thread_id,
                          run_id |-> sr.run_id, answer |-> sr.answer,
                          attachments |-> sr.attachments, email |-> req.email]

\* a request that lacks a field and carries a wrong secret was answered 400
C20_Witness ==
  /\ fnCall.fn = "quiz_solver"
  /\ fnCall.req.kind = "dict"
  /\ fnCall.req.email = ""
  /\ fnCall.req.secret = "wrong"
  /\ fnOut.code = 400

\* the listing of C21: every entry's name, in the archive's order
C21_Listed ==
  /\ Len(fnOut.names) = Len(fnCall.entries)
  /\ \A i \in 1..Len(fnCall.entries) : fnOut.names[i] = fnCall.entries[i].name

\* a name that ends in a text-like extension and does not start with '__'
C21_TextLike(entry) ==
  /\ Lower(entry.ext) \in {".txt", ".csv", ".json", ".xml", ".html", ".md", ".py", ".js"}
  /\ entry.name \notin {"__MACOSX/c.txt"}

\* C21 as claimed: the output lists every entry's name in the archive's
\* order, holds the decoded text (its first 8,000 characters at most) of
\* exactly the entries with a text-like name not starting with '__', holds
\* no content of any other entry, and is at most 25,000 characters long.
C21_ZipContents ==
  fnCall.fn = "extract_zip" =>
    /\ C21_Listed
    /\ \A i \in 1..Len(fnCall.entries) :
         LET entry == fnCall.entries[i] part == fnOut.parts[i] IN
         IF C21_TextLike(entry)
         THEN part.kind = "text" /\ part.shown = Min(entry.len, 8000)
         ELSE part.kind = "none" /\ part.shown = 0
    /\ fnOut.len <= 25000

\* C21 amended: text is held only for such entries that can be read (one
\* that cannot is noted by name), and only as far as the first 25,000
\* characters of the whole output reach.
C21_ZipContentsUpToCut ==
  fnCall.fn = "extract_zip" =>
    /\ C21_Listed
    /\ \A i \in 1..Len(fnCall.entries) :
         LET entry == fnCall.entries[i] part == fnOut.parts[i] IN
         /\ part.kind = (IF ~C21_TextLike(entry) THEN "none"
                         ELSE IF entry.readable THEN "text" ELSE "note")
         /\ part.text = (IF part.kind = "text" THEN Min(entry.len, 8000) ELSE 0)
         /\ part.shown <= part.text
         /\ fnOut.full <= 25000 => part.shown = part.text
    /\ fnOut.len <= 25000
    /\ fnOut.len = Min(fnOut.full, 25000)

\* an archive with a.txt, b.csv and photo.png, in any order, was extracted
C21_Witness ==
  /\ fnCall.fn = "extract_zip"
  /\ Len(fnCall.entries) = 3
  /\ {fnCall.entries[i].name : i \in 1..3} = {"a.txt", "b.csv", "photo.png"}
  /\ \E i \in 1..3 : fnOut.parts[i].kind = "text" /\ fnOut.parts[i].shown = 8000

\* the error strings download_and_process_file builds in its except clause
C28_ErrorStrings ==
  {"Error processing file: HTTPError",
   "Error processing file: ChunkedEncodingError"}

\* C28: whenever download_and_process_file returns an error string, the
\* cache is exactly as it was before the call.
C28_ErrorLeavesCache ==
  (fnCall.fn = "download_and_process_file" /\ fnOut.ret \in C28_ErrorStrings)
    => fnOut.cache = fnCall.cache

\* C22: two concurrent callers of download_and_process_file for the same
\* uncached opaque-binary url can both pass the cache test before either
\* stores a handle, and the url is then uploaded twice; a url is uploaded
\* twice only in that way.
C22_TwiceOnlyByRace ==
  fnCall.fn = "concurrent" =>
    \A u \in CacheableUrls : uploads[u] >= 2 => fnOut.raced

\* both callers passed the test, wrote, uploaded and removed the same file
C22_Witness ==
  /\ fnCall.fn = "concurrent"
  /\ fnCall.url[1] = PngUrl /\ fnCall.url[2] = PngUrl
  /\ uploads[PngUrl] = 2
  /\ fnOut.raced
  /\ \A t \in Callers : fnOut.wrote[t] /\ fnOut.removed[t] /\ fnCall.at[t] = "done"

\* the handler the tool table gives a name
C24_TableHandler(name, args) ==
  CASE name = "web_scraper" ->
         IF args.format = "markdown" THEN "scrape_md" ELSE "scrape_html"
    [] name = "web_downloader" -> "download_and_process_file"
    [] name = "pdf_scraper" -> "scrape_pdf"
    [] name = "audio_transcriber" -> "transcribe_audio_file"
    [] name = "api_request" -> IF args.method = "GET" THEN "get_json" ELSE "post_json"
    [] name = "excel_parser" -> "parse_excel"
    [] name = "image_ocr" -> "extract_text_from_image"
    [] name = "image_analyzer" -> "analyze_image_with_vision"
    [] name = "table_extractor" -> "extract_tables_from_html"
    [] name = "zip_extractor" -> "extract_zip"
    [] name = "json_query" -> "query_json_path"
    [] name = "chart_generator" -> "generate_chart_base64"

C24_ToolSet ==
  {"web_scraper", "web_downloader", "pdf_scraper", "audio_transcriber",
   "api_request", "excel_parser", "image_ocr", "image_analyzer",
   "table_extractor", "zip_extractor", "json_query", "chart_generator"}

\* C24: for each call whose name is in the tool set the driver invokes the
\* handler of the tool table, once, and no other; web_scraper gives the
\* rendered HTML for format html or none, and its Markdown conversion for
\* format markdown; api_request sends only a GET for GET, only a POST for POST.
C24_OneHandlerPerCall ==
  (fnCall.fn = "tool_call" /\ fnCall.name \in C24_ToolSet) =>
    /\ fnOut.kind = "return"
    /\ fnOut.handlers = <<C24_TableHandler(fnCall.name, fnCall.args)>>
    /\ (fnCall.name = "web_scraper" /\ fnCall.handlerOk) =>
         fnOut.out = IF fnCall.args.format = "markdown"
                     THEN "rendered" ELSE "<html>rendered</html>"
    /\ fnCall.name = "api_request" => fnOut.http = <<fnCall.args.method>>

\* C25: a call whose name is not in the tool set falls through: no handler
\* runs, nothing is raised, and the output appended for it is 'Error'.
C25_UnknownFallsThrough ==
  (fnCall.fn = "tool_call" /\ fnCall.name \notin C24_ToolSet) =>
    /\ fnOut.kind = "return"
    /\ fnOut.handlers = <<>>
    /\ fnOut.out = "Error"

\* no assistant message of the listing holds an image
C23_NoImage(msgs) ==
  \A i \in 1..Len(msgs) :
    msgs[i].role = "assistant" => PartsOfType(msgs[i], "image_file") = <<>>

\* C23: when a POST payload holds the sentinel and no assistant message has
\* an image, or the lookup of the messages fails, nothing is substituted:
\* the POST is sent with the sentinel still under the key, and the output
\* of the call is that of the POST, with no error on account of the sentinel.
C23_SilentNoOp ==
  (/\ fnCall.fn = "api_request"
   /\ C23_NoImage(fnCall.msgs) \/ ~fnCall.lookupOk)
  => /\ fnOut.posted
     /\ fnOut.sent = fnCall.payload
     /\ fnCall.postOk => fnOut.out = "{\"received\": true}"

\* a payload with the sentinel was posted for a thread without any image
C23_Witness ==
  /\ fnCall.fn = "api_request"
  /\ fnCall.payload["chart"] = Sentinel
  /\ fnCall.lookupOk /\ fnCall.postOk
  /\ C23_NoImage(fnCall.msgs)
  /\ fnOut.sent["chart"] = "__LATEST_FILE__"

\* C26: the solver is called exactly for the requests that carry email,
\* secret and url and whose secret is the configured one; a request answered
\* 400 or 403 has caused no solver call and changed nothing else.
C26_SolverGated ==
  fnCall.fn = "quiz_solver" =>
    /\ fnOut.called <=>
         /\ fnCall.req.kind = "dict"
         /\ \A field \in C20_Fields : ~C20_Lacks(fnCall.req, field)
         /\ fnCall.req.secret = "yoursecret"
    /\ fnOut.code \in {400, 403} =>
         /\ ~fnOut.called
         /\ pc = "create_assistant" /\ remote = NoRun
         /\ \A u \in Urls : cache[u] = Absent /\ fetches[u] = 0 /\ uploads[u] = 0

\* a request with every field and a wrong secret was answered 403
C26_Witness ==
  /\ fnCall.fn = "quiz_solver"
  /\ \A field \in C20_Fields : ~C20_Lacks(fnCall.req, field)
  /\ fnCall.req.secret = "wrong"
  /\ fnOut.code = 403
  /\ ~fnOut.called

\* C27: in every result solve_quiz_question returns, status is completed
\* exactly when answer is a string and no error is set; completed never comes
\* with an error; and once the run was created, thread_id and run_id are
\* set however the attempt ended.
C27_ResultRecord ==
  pc = "done" =>
    /\ result.status = "completed" <=>
         (result.answer # None /\ result.error = Absent)
    /\ ~(result.status = "completed" /\ result.error # Absent)
    /\ remote # NoRun =>
         result.thread_id = "thread_1" /\ result.run_id = "run_1"

\* an attempt that ended by an exception after its run was created
C27_Witness ==
  /\ pc = "done"
  /\ remote # NoRun
  /\ lp = "raised"
  /\ result.status = "error"
  /\ result.answer = None
  /\ result.run_id = "run_1"

\* what a first call under a rule that bypasses the cache returns
C29_FreshReturn(rule, ok, fid) ==
  CASE rule = "pdf" ->
         IF ok THEN "pdf text" ELSE "Error extracting PDF text: HTTPError"
    [] rule = "excel" ->
         IF ok THEN "Excel file uploaded. File ID: file-" \o ToString(fid)
                      \o ". Use Code Interpreter with pandas to read and process this file: pd.read_excel(file_path)"
         ELSE "Error downloading Excel: HTTPError"
    [] rule = "zip" ->
         IF ok THEN "Files in archive: []\n\n" ELSE "Error extracting ZIP: HTTPError"

\* C29: only the text and opaque-binary paths of web_downloader read or
\* write the cache.  A url handled as PDF, spreadsheet or ZIP leaves the
\* cache empty and its second request is carried out like its first: a
\* spreadsheet is fetched and uploaded again and gets a new file id.  A url
\* of the other two paths that succeeded is in the cache afterwards.
C29_CacheOnlyOnTextAndBinary ==
  fnCall.fn = "download_twice" =>
    LET rule == C12_Rule(fnCall.url, fnCall.ct)
        used == {u \in FnUrls : fnOut.second.cache[u] # Absent}
    IN /\ rule \in {"pdf", "excel", "zip"} =>
            /\ used = {}
            /\ fnOut.first.ret = C29_FreshReturn(rule, fnCall.ok1, 2)
            /\ fnOut.second.ret = C29_FreshReturn(rule, fnCall.ok2, fnOut.first.fid)
            /\ (rule = "excel" /\ fnCall.ok1 /\ fnCall.ok2) => fnOut.second.fid = 4
       /\ (rule \in {"text", "binary"} /\ fnCall.ok1) =>
            /\ used = {fnCall.url}
            /\ fnOut.second.ret = fnOut.first.cache[fnCall.url]
            /\ fnOut.second.fid = fnOut.first.fid

\* a spreadsheet url was requested twice and uploaded twice
C29_Witness ==
  /\ fnCall.fn = "download_twice"
  /\ fnCall.url = [stem |-> "http://h/book", ext |-> ".XLSX"]
  /\ fnCall.ok1 /\ fnCall.ok2
  /\ fnOut.first.fid = 3
  /\ fnOut.second.fid = 4

\* the pairs (submitted, actual) of Secrets in which the submission, with
\* the blanks around it removed, is the non-empty secret of the server
C30_Matching ==
  {<<"yoursecret", "yoursecret">>, <<" yoursecret ", "yoursecret">>,
   <<"wrong", "wrong">>, <<"pad", "pad">>, <<" pad ", "pad">>}

\* C30: the secret check accepts exactly when both secrets are non-empty and
\* the submission without its surrounding blanks equals the server's secret;
\* with no server secret nothing is accepted and the answer is the "not
\* configured" message, whatever was submitted.
C30_SecretCheck ==
  fnCall.fn = "secret_check" =>
    /\ fnOut.correct <=> <<fnCall.submitted, fnCall.actual>> \in C30_Matching
    /\ fnCall.actual \in {None, ""} =>
         /\ ~fnOut.correct
         /\ fnOut.message = "Server secret is not configured. Please set USER_SECRET."
    /\ (fnCall.actual \notin {None, ""} /\ fnCall.submitted \in {None, ""}) =>
         fnOut.message = "Please provide a secret value."

\* a submission with blanks around it was accepted
C30_Witness ==
  /\ fnCall.fn = "secret_check"
  /\ fnCall.submitted = " yoursecret "
  /\ fnCall.actual = "yoursecret"
  /\ fnOut.correct

\* neither secret is given and the answer is the "not configured" message
C30_WitnessPrecedence ==
  /\ fnCall.fn = "secret_check"
  /\ fnCall.submitted = None
  /\ fnCall.actual = ""
  /\ fnOut.message = "Server secret is not configured. Please set USER_SECRET."

====
